---- MODULE Spec2Model ----
(***************************************************************************)
(* State machine of the in-browser recorder of frontend/src/App.jsx:       *)
(* the React state of App, its refs, the media objects the handlers hold,  *)
(* and one action per handler or per resumption of the async               *)
(* startRecording / setupCapture after an await.                           *)
(***************************************************************************)
EXTENDS Integers, Sequences, FiniteSets, TLC

\* ---------------------------------------------------------------- bounds
MaxSessions == 2
MaxCountdown == 3
MaxFrames == 2
MaxChunks == 2
MaxSettingChanges == 1

\* ------------------------------------------------------------- constants
Null == 0
Sessions == 1..MaxSessions
SourceKinds == {"display", "webcam", "mic"}
StreamKinds == {"display", "webcam", "mic", "canvas"}
\* the streams a session creates: those of streamRef and the mixed-audio
\* stream of the AudioContext destination, which no reference holds
HandleKinds == StreamKinds \cup {"mixed"}
Videos == {"screenVideo", "webcamVideo"}

WebcamSizes == {200, 250}
Positions == {"bottom-right", "top-left"}
FpsValues == {20, 30}
Countdowns == 0..MaxCountdown

DefaultSettings ==
  [webcam_size |-> 200, webcam_position |-> "bottom-right", fps |-> 20, countdown |-> 3]

SettingsValues ==
  [webcam_size : WebcamSizes, webcam_position : Positions, fps : FpsValues,
   countdown : Countdowns]

ErrStart == "Failed to start recording. Please allow screen and mic access."
ErrStop == "Failed to stop recording."

NullStreams == [k \in StreamKinds |-> Null]
NoRecording == [by |-> Null, data |-> <<>>]

\* per field, the values a session's calls and compositor have read so far
NoneUsed == [fps |-> {}, webcam_size |-> {}, webcam_position |-> {}]

\* positions of one startRecording call
PcWaiting == {"tick", "getDisplay", "getWebcam", "getMic", "waitMeta", "waitPlay"}

VARIABLES
  recording,      \* useState(false)
  frames,         \* useState(0)
  countdown,      \* useState(0)
  statusError,    \* useState('')
  settings,       \* useState({...})
  lastRecording,  \* useState(null): the exposed artifact
  drawLoopRef,    \* session whose pending animation-frame callback id is held
  recorderRef,    \* session whose MediaRecorder is held
  streamRef,      \* kind -> session whose stream of that kind is held
  chunksRef,      \* the array currently in chunksRef.current
  sess,           \* per startRecording call: pc, loop index i, settings closure
                  \* (snap) and the setting values read from it so far (used)
  handles,        \* per session and stream kind: "none" | "open" | "stopped"
  loop,           \* per session: "none" | "scheduled" | "cancelled"
  recorder,       \* per session: "none" | "recording" | "stopping" | "finalized"
  onloaded,       \* per hidden video element: session whose stream is its srcObject
                  \* and whose resolver is its onloadedmetadata
  metaPending,    \* per hidden video element: loadedmetadata not yet fired
  metaRes,        \* per session: the metadata promises already resolved
  emitted,        \* per session: fragments emitted by its encoder
  hist            \* history of the run, not program state: settings clicks
                  \* so far, tick values each start has shown, which starts
                  \* overlapped another session, which sessions a stop request
                  \* reached, whose encoder failed, artifacts built per session,
                  \* and whether a stop was requested after a finished recording

vars == <<recording, frames, countdown, statusError, settings, lastRecording,
          drawLoopRef, recorderRef, streamRef, chunksRef, sess, handles, loop,
          recorder, onloaded, metaPending, metaRes, emitted, hist>>

uiVars == <<recording, frames, countdown, statusError, settings, lastRecording>>
refVars == <<drawLoopRef, recorderRef, streamRef, chunksRef>>
mediaVars == <<handles, loop, recorder, onloaded, metaPending, metaRes, emitted>>

\* ------------------------------------------------------------ the machine
\* a read of field f of the settings object s by a call of a session
Use(u, s, f) == [u EXCEPT ![f] = @ \cup {s[f]}]

\* the reads of one draw call: settings.webcam_size, settings.webcam_position
DrawUses(u, s) == Use(Use(u, s, "webcam_size"), s, "webcam_position")

\* A startRecording call is in progress (between its first line and its
\* return or catch), or its encoder has not yet delivered onstop.
Active(q) ==
  \/ sess[q].pc \in PcWaiting
  \/ recorder[q] \in {"recording", "stopping"}

\* The state of section 4.4 the program is in.
MachineState ==
  IF countdown > 0 THEN "CountingDown"
  ELSE IF recording THEN "Recording"
  ELSE IF \E q \in Sessions : sess[q].pc \in PcWaiting THEN "Acquiring"
  ELSE IF \E q \in Sessions : recorder[q] \in {"recording", "stopping"} THEN "Saving"
  ELSE "Idle"

\* mutant: the microphone stream is not stopped
StopTracksSkipMic(h, sref) ==
  [q \in Sessions |-> [k \in HandleKinds |->
     IF k \in StreamKinds \ {"mic"} /\ sref[k] = q /\ h[q][k] = "open"
     THEN "stopped" ELSE h[q][k]]]

\* stream.getTracks().forEach(t => t.stop()) for every stream held in sref
StopTracks(h, sref) ==
  [q \in Sessions |-> [k \in HandleKinds |->
     IF k \in StreamKinds /\ sref[k] = q /\ h[q][k] = "open"
     THEN "stopped" ELSE h[q][k]]]

\* cancelAnimationFrame(drawLoopRef.current)
CancelFrame(lp, dref) ==
  [q \in Sessions |-> IF dref = q /\ lp[q] = "scheduled" THEN "cancelled" ELSE lp[q]]

\* mutant: the animation-frame callback is forgotten, not cancelled
cleanupStreamsNoCancel(h, sref, lp, dref) ==
  /\ handles' = StopTracks(h, sref)
  /\ streamRef' = NullStreams
  /\ loop' = lp
  /\ drawLoopRef' = Null

\* cleanupStreams, applied to the handles h, references sref, loops lp and
\* loop reference dref the caller has reached
cleanupStreams(h, sref, lp, dref) ==
  /\ handles' = StopTracks(h, sref)
  /\ streamRef' = NullStreams
  /\ loop' = CancelFrame(lp, dref)
  /\ drawLoopRef' = Null

\* the catch block of startRecording
startCatch(p, ss, h, sref, lp, dref) ==
  /\ statusError' = ErrStart
  /\ countdown' = 0
  /\ cleanupStreams(h, sref, lp, dref)
  /\ sess' = [ss EXCEPT ![p].pc = "failed"]
  /\ UNCHANGED hist

Init ==
  /\ recording = FALSE
  /\ frames = 0
  /\ countdown = 0
  /\ statusError = ""
  /\ settings = DefaultSettings
  /\ lastRecording = NoRecording
  /\ drawLoopRef = Null
  /\ recorderRef = Null
  /\ streamRef = NullStreams
  /\ chunksRef = <<>>
  /\ sess = [p \in Sessions |->
               [pc |-> "unborn", i |-> 0, snap |-> DefaultSettings, used |-> NoneUsed]]
  /\ handles = [p \in Sessions |-> [k \in HandleKinds |-> "none"]]
  /\ loop = [p \in Sessions |-> "none"]
  /\ recorder = [p \in Sessions |-> "none"]
  /\ onloaded = [v \in Videos |-> Null]
  /\ metaPending = [v \in Videos |-> FALSE]
  /\ metaRes = [p \in Sessions |-> {}]
  /\ emitted = [p \in Sessions |-> 0]
  /\ hist = [changes |-> 0,
             idleStop |-> FALSE,
             ticks |-> [p \in Sessions |-> <<>>],
             overlapped |-> [p \in Sessions |-> FALSE],
             stopped |-> [p \in Sessions |-> FALSE],
             errored |-> [p \in Sessions |-> FALSE],
             nArt |-> [p \in Sessions |-> 0]]

\* A click on one settings control: each control replaces one field and is
\* disabled only while `recording`.
setSettings(f, s) ==
  /\ ~recording
  /\ s[f] # settings[f]
  /\ hist.changes < MaxSettingChanges
  /\ settings' = [settings EXCEPT ![f] = s[f]]
  /\ hist' = [hist EXCEPT !.changes = @ + 1]
  /\ UNCHANGED <<recording, frames, countdown, statusError, lastRecording>>
  /\ UNCHANGED refVars
  /\ UNCHANGED <<sess, mediaVars>>

\* mutant: the recording flag is raised at the click, before the countdown
startRecordingEager(p) ==
  /\ ~recording /\ countdown = 0
  /\ sess[p].pc = "unborn"
  /\ \A q \in Sessions : q < p => sess[q].pc # "unborn"
  /\ statusError' = ""
  /\ frames' = 0
  /\ recording' = TRUE
  /\ LET n == settings.countdown IN
       /\ countdown' = n
       /\ sess' = [sess EXCEPT ![p] =
                     [pc |-> IF n > 0 THEN "tick" ELSE "getDisplay",
                      i |-> n, snap |-> settings,
                      used |-> IF n > 0 THEN NoneUsed ELSE Use(NoneUsed, settings, "fps")]]
       /\ hist' = [hist EXCEPT
                     !.ticks[p] = IF n > 0 THEN <<n>> ELSE <<>>,
                     !.overlapped = [q \in Sessions |->
                        \/ hist.overlapped[q]
                        \/ Active(q)
                        \/ (q = p /\ \E r \in Sessions : Active(r))]]
  /\ UNCHANGED <<settings, lastRecording>>
  /\ UNCHANGED refVars
  /\ UNCHANGED mediaVars

\* A click on Start Recording, up to the first await: the button is rendered
\* only when !recording && countdown === 0.
startRecording(p) ==
  /\ ~recording /\ countdown = 0
  /\ sess[p].pc = "unborn"
  /\ \A q \in Sessions : q < p => sess[q].pc # "unborn"
  /\ statusError' = ""
  /\ frames' = 0
  /\ LET n == settings.countdown IN
       /\ countdown' = n
       /\ sess' = [sess EXCEPT ![p] =
                     [pc |-> IF n > 0 THEN "tick" ELSE "getDisplay",
                      i |-> n, snap |-> settings,
                      used |-> IF n > 0 THEN NoneUsed ELSE Use(NoneUsed, settings, "fps")]]
       /\ hist' = [hist EXCEPT
                     !.ticks[p] = IF n > 0 THEN <<n>> ELSE <<>>,
                     !.overlapped = [q \in Sessions |->
                        \/ hist.overlapped[q]
                        \/ Active(q)
                        \/ (q = p /\ \E r \in Sessions : Active(r))]]
  /\ UNCHANGED <<recording, settings, lastRecording>>
  /\ UNCHANGED refVars
  /\ UNCHANGED mediaVars

\* mutant: the loop runs while i >= 0 and shows one tick too many
countdownTimerExtraTick(p) ==
  /\ sess[p].pc = "tick"
  /\ LET j == sess[p].i - 1 IN
       IF j >= 0
       THEN /\ countdown' = j
            /\ sess' = [sess EXCEPT ![p].i = j]
            /\ hist' = [hist EXCEPT !.ticks[p] = Append(@, j)]
       ELSE /\ countdown' = 0
            /\ sess' = [sess EXCEPT ![p].i = j, ![p].pc = "getDisplay",
                                    ![p].used = Use(@, sess[p].snap, "fps")]
            /\ UNCHANGED hist
  /\ UNCHANGED <<recording, frames, statusError, settings, lastRecording>>
  /\ UNCHANGED refVars
  /\ UNCHANGED mediaVars

\* The one-second timer of the countdown loop fires.
countdownTimer(p) ==
  /\ sess[p].pc = "tick"
  /\ LET j == sess[p].i - 1 IN
       IF j > 0
       THEN /\ countdown' = j
            /\ sess' = [sess EXCEPT ![p].i = j]
            /\ hist' = [hist EXCEPT !.ticks[p] = Append(@, j)]
       ELSE /\ countdown' = 0
            /\ sess' = [sess EXCEPT ![p].i = j, ![p].pc = "getDisplay",
                                    ![p].used = Use(@, sess[p].snap, "fps")]
            /\ UNCHANGED hist
  /\ UNCHANGED <<recording, frames, statusError, settings, lastRecording>>
  /\ UNCHANGED refVars
  /\ UNCHANGED mediaVars

\* One of the three acquisition promises of setupCapture settles:
\* getDisplayMedia, getUserMedia(video), getUserMedia(audio), in that order.
\* The next call is made in the same step: getDisplayMedia reads settings.fps,
\* getUserMedia(video) reads settings.webcam_size.
NextPc(k) == IF k = "display" THEN "getWebcam" ELSE "getMic"
AwaitPc(k) == IF k = "display" THEN "getDisplay" ELSE IF k = "webcam" THEN "getWebcam" ELSE "getMic"

acquireGranted(p, k) ==
  /\ k \in {"display", "webcam"}
  /\ sess[p].pc = AwaitPc(k)
  /\ handles' = [handles EXCEPT ![p][k] = "open"]
  /\ sess' = [sess EXCEPT ![p].pc = NextPc(k),
                          ![p].used = IF k = "display"
                                      THEN Use(@, sess[p].snap, "webcam_size") ELSE @]
  /\ UNCHANGED hist
  /\ UNCHANGED uiVars
  /\ UNCHANGED refVars
  /\ UNCHANGED <<loop, recorder, onloaded, metaPending, metaRes, emitted>>

\* the microphone is granted: the three streams are stored in streamRef, the
\* hidden videos get their srcObject and the two metadata waits are set up
micGranted(p) ==
  /\ sess[p].pc = "getMic"
  /\ handles' = [handles EXCEPT ![p]["mic"] = "open"]
  /\ streamRef' = [k \in StreamKinds |-> IF k \in SourceKinds THEN p ELSE streamRef[k]]
  /\ onloaded' = [v \in Videos |-> p]
  /\ metaPending' = [v \in Videos |-> TRUE]
  /\ metaRes' = [metaRes EXCEPT ![p] = {}]
  /\ sess' = [sess EXCEPT ![p].pc = "waitMeta"]
  /\ UNCHANGED hist
  /\ UNCHANGED uiVars
  /\ UNCHANGED <<drawLoopRef, recorderRef, chunksRef>>
  /\ UNCHANGED <<loop, recorder, emitted>>

\* an acquisition promise rejects (permission denied, device unavailable)
acquireDenied(p, k) ==
  /\ k \in SourceKinds
  /\ sess[p].pc = AwaitPc(k)
  /\ startCatch(p, sess, handles, streamRef, loop, drawLoopRef)
  /\ UNCHANGED <<recording, frames, settings, lastRecording>>
  /\ UNCHANGED <<recorderRef, chunksRef>>
  /\ UNCHANGED <<recorder, onloaded, metaPending, metaRes, emitted>>

\* loadedmetadata fires on a hidden video element: the resolver currently in
\* onloadedmetadata runs; when both waits of its session are resolved the
\* session goes on to the play() calls
metadataLoaded(v) ==
  /\ metaPending[v]
  /\ metaPending' = [metaPending EXCEPT ![v] = FALSE]
  /\ LET q == onloaded[v]
         res == metaRes[q] \cup {v}
     IN /\ metaRes' = [metaRes EXCEPT ![q] = res]
        /\ sess' = IF sess[q].pc = "waitMeta" /\ res = Videos
                   THEN [sess EXCEPT ![q].pc = "waitPlay"]
                   ELSE sess
  /\ UNCHANGED hist
  /\ UNCHANGED uiVars
  /\ UNCHANGED refVars
  /\ UNCHANGED <<handles, loop, recorder, onloaded, emitted>>

\* Both play() promises have settled: the rest of setupCapture (first draw,
\* canvas stream, AudioContext and its mixed-audio destination stream) and
\* of startRecording (encoder set-up) runs.
\* encOk = FALSE: the MediaRecorder constructor or start() throws.
playSettled(p, encOk) ==
  /\ sess[p].pc = "waitPlay"
  /\ frames' = frames + 1
  /\ LET h1 == [handles EXCEPT ![p]["canvas"] = "open", ![p]["mixed"] = "open"]
         sref1 == [streamRef EXCEPT !["canvas"] = p]
         lp1 == [loop EXCEPT ![p] = "scheduled"]
         ss1 == [sess EXCEPT ![p].used = Use(DrawUses(@, sess[p].snap), sess[p].snap, "fps")]
     IN IF encOk
        THEN /\ handles' = h1
             /\ streamRef' = sref1
             /\ loop' = lp1
             /\ drawLoopRef' = p
             /\ chunksRef' = <<>>
             /\ recorder' = [recorder EXCEPT ![p] = "recording"]
             /\ recorderRef' = p
             /\ recording' = TRUE
             /\ sess' = [ss1 EXCEPT ![p].pc = "done"]
             /\ UNCHANGED hist
             /\ UNCHANGED <<countdown, statusError>>
        ELSE /\ startCatch(p, ss1, h1, sref1, lp1, p)
             /\ UNCHANGED <<recording, recorderRef, chunksRef, recorder>>
  /\ UNCHANGED <<settings, lastRecording>>
  /\ UNCHANGED <<onloaded, metaPending, metaRes, emitted>>

\* mutant: the compositor reads the current settings state, not its closure
drawCurrentSettings(p) ==
  /\ loop[p] = "scheduled"
  /\ frames < MaxFrames
  /\ drawLoopRef' = p
  /\ sess' = [sess EXCEPT ![p].used = DrawUses(@, settings)]
  /\ frames' = frames + 1
  /\ UNCHANGED hist
  /\ UNCHANGED <<recording, countdown, statusError, settings, lastRecording>>
  /\ UNCHANGED <<recorderRef, streamRef, chunksRef>>
  /\ UNCHANGED mediaVars

\* the animation-frame callback of a session's compositor runs
draw(p) ==
  /\ loop[p] = "scheduled"
  /\ frames < MaxFrames
  /\ drawLoopRef' = p
  /\ sess' = [sess EXCEPT ![p].used = DrawUses(@, sess[p].snap)]
  /\ frames' = frames + 1
  /\ UNCHANGED hist
  /\ UNCHANGED <<recording, countdown, statusError, settings, lastRecording>>
  /\ UNCHANGED <<recorderRef, streamRef, chunksRef>>
  /\ UNCHANGED mediaVars

\* the fragments emitted so far by all encoders
RECURSIVE SumTo(_, _)
SumTo(f, n) == IF n = 0 THEN 0 ELSE f[n] + SumTo(f, n - 1)
Emitted == SumTo(emitted, MaxSessions)

\* the fragment an encoder emits: its session and its number in emission order
Fragment(p) == [by |-> p, n |-> emitted[p] + 1]

\* mutant: a fragment is put in front of the buffer (unshift for push)
ondataavailableUnshift(p, size) ==
  /\ recorder[p] \in {"recording", "stopping"}
  /\ Emitted < MaxChunks
  /\ emitted' = [emitted EXCEPT ![p] = @ + 1]
  /\ chunksRef' = IF size > 0 THEN <<Fragment(p)>> \o chunksRef ELSE chunksRef
  /\ UNCHANGED hist
  /\ UNCHANGED uiVars
  /\ UNCHANGED <<drawLoopRef, recorderRef, streamRef>>
  /\ UNCHANGED <<sess, handles, loop, recorder, onloaded, metaPending, metaRes>>

\* recorder.ondataavailable: the encoder of session p emits a fragment of
\* the given size
ondataavailable(p, size) ==
  /\ recorder[p] \in {"recording", "stopping"}
  /\ Emitted < MaxChunks
  /\ emitted' = [emitted EXCEPT ![p] = @ + 1]
  /\ chunksRef' = IF size > 0 THEN Append(chunksRef, Fragment(p)) ELSE chunksRef
  /\ UNCHANGED hist
  /\ UNCHANGED uiVars
  /\ UNCHANGED <<drawLoopRef, recorderRef, streamRef>>
  /\ UNCHANGED <<sess, handles, loop, recorder, onloaded, metaPending, metaRes>>

\* the catch block of stopRecording
stopCatch ==
  /\ statusError' = ErrStop
  /\ cleanupStreams(handles, streamRef, loop, drawLoopRef)
  /\ UNCHANGED hist
  /\ UNCHANGED <<recording, frames, countdown, settings, lastRecording>>
  /\ UNCHANGED <<recorderRef, chunksRef>>
  /\ UNCHANGED <<sess, recorder, onloaded, metaPending, metaRes, emitted>>

\* recorderRef.current.stop() returns, then setRecording(false)
stopEncoder(r) ==
  /\ recorder' = [recorder EXCEPT ![r] = "stopping"]
  /\ recording' = FALSE
  /\ hist' = [hist EXCEPT !.stopped[r] = TRUE]
  /\ UNCHANGED <<frames, countdown, statusError, settings, lastRecording>>
  /\ UNCHANGED refVars
  /\ UNCHANGED <<sess, handles, loop, onloaded, metaPending, metaRes, emitted>>

\* no recorder, or an inactive one: only setRecording(false)
stopSkipped(r) ==
  /\ recording' = FALSE
  /\ hist' = [hist EXCEPT
                !.stopped = [q \in Sessions |-> @[q] \/ (q = r /\ recording)],
                !.idleStop = @ \/ (~recording /\ r # Null)]
  /\ UNCHANGED <<frames, countdown, statusError, settings, lastRecording>>
  /\ UNCHANGED refVars
  /\ UNCHANGED <<sess, mediaVars>>

\* mutant: stop() is called without the state check, and throws on an
\* inactive recorder
stopRecordingNoStateCheck(throws) ==
  LET r == recorderRef IN
  IF r # Null /\ recorder[r] = "recording"
  THEN IF throws THEN stopCatch ELSE stopEncoder(r)
  ELSE IF r # Null
       THEN ~throws /\ stopCatch
       ELSE ~throws /\ stopSkipped(r)

\* stopRecording.  The Stop button is rendered only while `recording`; the
\* handler itself has no guard and is modelled for every state.
\* throws = TRUE: recorder.stop() throws.
stopRecording(throws) ==
  LET r == recorderRef IN
  IF r # Null /\ recorder[r] = "recording"
  THEN IF throws THEN stopCatch ELSE stopEncoder(r)
  ELSE ~throws /\ stopSkipped(r)

\* mutant: onstop builds the artifact but does not call cleanupStreams
onstopNoCleanup(p) ==
  /\ recorder[p] = "stopping"
  /\ lastRecording' = [by |-> p, data |-> chunksRef]
  /\ recorder' = [recorder EXCEPT ![p] = "finalized"]
  /\ hist' = [hist EXCEPT !.nArt[p] = @ + 1]
  /\ UNCHANGED <<recording, frames, countdown, statusError, settings>>
  /\ UNCHANGED refVars
  /\ UNCHANGED <<sess, handles, loop, onloaded, metaPending, metaRes, emitted>>

\* recorder.onstop of session p's encoder
onstop(p) ==
  /\ recorder[p] = "stopping"
  /\ lastRecording' = [by |-> p, data |-> chunksRef]
  /\ cleanupStreams(handles, streamRef, loop, drawLoopRef)
  /\ recorder' = [recorder EXCEPT ![p] = "finalized"]
  /\ hist' = [hist EXCEPT !.nArt[p] = @ + 1]
  /\ UNCHANGED <<recording, frames, countdown, statusError, settings>>
  /\ UNCHANGED <<recorderRef, chunksRef>>
  /\ UNCHANGED <<sess, onloaded, metaPending, metaRes, emitted>>

\* The encoder of session p fails while recording: the browser fires `error`
\* (no handler is registered), makes the recorder inactive and queues `stop`.
encoderError(p) ==
  /\ recorder[p] = "recording"
  /\ recorder' = [recorder EXCEPT ![p] = "stopping"]
  /\ hist' = [hist EXCEPT !.errored[p] = TRUE]
  /\ UNCHANGED uiVars
  /\ UNCHANGED refVars
  /\ UNCHANGED <<sess, handles, loop, onloaded, metaPending, metaRes, emitted>>

Next ==
  \/ \E f \in DOMAIN DefaultSettings, s \in SettingsValues : setSettings(f, s)
  \/ \E p \in Sessions : startRecording(p)
  \/ \E p \in Sessions : countdownTimer(p)
  \/ \E p \in Sessions, k \in SourceKinds : acquireGranted(p, k)
  \/ \E p \in Sessions : micGranted(p)
  \/ \E p \in Sessions, k \in SourceKinds : acquireDenied(p, k)
  \/ \E v \in Videos : metadataLoaded(v)
  \/ \E p \in Sessions, encOk \in BOOLEAN : playSettled(p, encOk)
  \/ \E p \in Sessions : draw(p)
  \/ \E p \in Sessions, size \in {0, 1} : ondataavailable(p, size)
  \/ \E throws \in BOOLEAN : stopRecording(throws)
  \/ \E p \in Sessions : onstop(p)
  \/ \E p \in Sessions : encoderError(p)

Spec == Init /\ [][Next]_vars

\* Progress of a session under a cooperating environment.  The browser
\* delivers what it has queued: the countdown timer, the loadedmetadata event
\* of a video with a live stream, the settled play() promises, the `stop`
\* event of a recorder that was stopped.  The user answers every permission
\* prompt (granting or denying it) and clicks Stop while the Stop button is
\* shown.
SpecLive ==
  /\ Init
  /\ [][Next]_vars
  /\ \A p \in Sessions :
       /\ WF_vars(countdownTimer(p))
       /\ WF_vars(\E k \in SourceKinds : acquireGranted(p, k) \/ acquireDenied(p, k))
       /\ WF_vars(micGranted(p) \/ acquireDenied(p, "mic"))
       /\ WF_vars(\E encOk \in BOOLEAN : playSettled(p, encOk))
       /\ WF_vars(onstop(p))
  /\ \A v \in Videos : WF_vars(metadataLoaded(v))
  /\ WF_vars(recording /\ stopRecording(FALSE))

\* ================================================================ claims

StateVars == <<recording, frames, countdown, statusError, settings, lastRecording,
               drawLoopRef, recorderRef, streamRef, chunksRef, sess, handles, loop,
               recorder, onloaded, metaPending, metaRes, emitted>>

Started(p) == sess[p].pc # "unborn"
LastStarted(p) == Started(p) /\ \A q \in Sessions : q > p => ~Started(q)
Closed(p, kinds) == \A k \in kinds : handles[p][k] # "open"

\* the streams and the compositor callback held by the shared references
\* before a step are stopped and cancelled after it, and the references are
\* cleared
RefsReleased ==
  /\ \A k \in StreamKinds : streamRef[k] # Null => handles'[streamRef[k]][k] = "stopped"
  /\ drawLoopRef # Null => loop'[drawLoopRef] = "cancelled"
  /\ streamRef' = NullStreams
  /\ drawLoopRef' = Null

\* C1: every start request that is accepted (starts a countdown or an
\* acquisition) is made while the machine is Idle; in CountingDown,
\* Acquiring, Recording and Saving no second session is started.
C1_StartOnlyWhenIdle ==
  [][\A p \in Sessions : startRecording(p) => MachineState = "Idle"]_vars

\* C2: once the failure of a start attempt has been handled, none of the
\* source handles (screen, webcam, microphone) that attempt opened is open.
C2_NoHandleLeftAfterFailure ==
  \A p \in Sessions : sess[p].pc = "failed" => Closed(p, SourceKinds)

\* C3: a session started with countdown 0 from Idle, with no other start
\* request during its life, that began recording and was then stopped: once
\* its encoder has delivered onstop, exactly one artifact was built for it and
\* it is the exposed one, none of its handles is open, its compositor is
\* not scheduled, and the machine is Idle (not recording, countdown 0).
C3_Case(p) ==
  /\ LastStarted(p)
  /\ sess[p].snap.countdown = 0
  /\ ~hist.overlapped[p]
  /\ hist.stopped[p]
  /\ recorder[p] = "finalized"

C3_StartStopOneArtifactNoLeak ==
  \A p \in Sessions : C3_Case(p) =>
    /\ hist.nArt[p] = 1
    /\ lastRecording.by = p
    /\ Closed(p, StreamKinds)
    /\ loop[p] # "scheduled"
    /\ ~recording
    /\ countdown = 0
    /\ MachineState = "Idle"

C3_Witness ==
  \E p \in Sessions : C3_Case(p) /\ frames >= 1 /\ sess[p].snap # DefaultSettings

\* C4: a stop request made while the recording flag is false changes nothing
\* of the program's state: flag, countdown, error message, artifact,
\* fragments, references, streams, compositor and encoders stay as they are.
C4_StopWhenNotRecordingIsNoOp ==
  [][(~recording /\ \E t \in BOOLEAN : stopRecording(t)) => UNCHANGED StateVars]_vars

C4_Witness ==
  /\ hist.idleStop
  /\ MachineState = "Idle"
  /\ lastRecording # NoRecording

\* C5 (as stated): right after a stop request that stopped the encoder, no
\* handle of the stopped session is open and its compositor callback is not
\* scheduled.
C5_StopReleasesSynchronously ==
  [][(recorderRef # Null /\ recorder[recorderRef] = "recording" /\ stopRecording(FALSE))
       => /\ \A k \in StreamKinds : handles'[recorderRef][k] # "open"
          /\ loop'[recorderRef] # "scheduled"]_vars

\* C5 (amended): a stop request that stops the encoder releases nothing
\* itself; the step that processes the encoder's stop callback stops every
\* stream held by the shared references and cancels the compositor callback
\* they hold.
C5_ReleaseOnStopCallback ==
  [][/\ stopRecording(FALSE) => UNCHANGED <<handles, loop, streamRef, drawLoopRef>>
     /\ \A p \in Sessions : onstop(p) => RefsReleased]_vars

C5_Witness ==
  \E p \in Sessions :
    /\ recorder[p] = "finalized"
    /\ hist.stopped[p]
    /\ Closed(p, StreamKinds)
    /\ handles[p]["canvas"] = "stopped"
    /\ loop[p] = "cancelled"

\* C6: a start with countdown setting N shows exactly the tick values
\* N, N-1, ..., 1 before it begins acquiring: while it counts down it has
\* shown N down to its loop index and holds no handle and no encoder, after
\* the countdown it has shown all N values, and with N = 0 it never waits.
\* Unless another start overlaps, the countdown state shows the loop index.
Descending(n, m) == [j \in 1..(n - m + 1) |-> n - j + 1]

C6_CountdownTicks ==
  \A p \in Sessions : Started(p) =>
    LET n == sess[p].snap.countdown IN
    /\ sess[p].pc = "tick" =>
         /\ n > 0 /\ sess[p].i \in 1..n
         /\ hist.ticks[p] = Descending(n, sess[p].i)
         /\ \A k \in StreamKinds : handles[p][k] = "none"
         /\ recorder[p] = "none"
         /\ ~hist.overlapped[p] => countdown = sess[p].i
    /\ sess[p].pc # "tick" => hist.ticks[p] = Descending(n, 1)

C6_Witness ==
  \E p, q \in Sessions :
    /\ sess[p].snap.countdown >= 2 /\ sess[p].pc = "done"
    /\ Len(hist.ticks[p]) = sess[p].snap.countdown
    /\ sess[q].snap.countdown = 0 /\ sess[q].pc = "getDisplay"
    /\ ~hist.overlapped[p] /\ ~hist.overlapped[q]

\* C7: the step in which a start attempt fails leaves the recording flag
\* false, the countdown 0, a non-empty failure reason, and the streams and
\* compositor callback held by the shared references released.
C7_StartFailureEndsIdle ==
  [][\A p \in Sessions :
       (sess[p].pc \in PcWaiting /\ sess'[p].pc = "failed")
         => /\ ~recording'
            /\ countdown' = 0
            /\ statusError' # ""
            /\ streamRef' = NullStreams /\ drawLoopRef' = Null]_vars

\* C8: once the stop callback of an encoder that failed while recording has
\* been processed, the recording flag is false, a failure reason is set and
\* the session's handles and compositor are released.
C8_EncoderFailureEndsIdle ==
  [][\A p \in Sessions :
       (hist.errored[p] /\ onstop(p))
         => /\ ~recording'
            /\ statusError' # ""
            /\ \A k \in StreamKinds : handles'[p][k] # "open"
            /\ loop'[p] # "scheduled"]_vars

\* C9: after a stop request in which recorder.stop() throws, the recording
\* flag is false.
C9_StopFailureEndsIdle ==
  [][stopRecording(TRUE) => ~recording']_vars

\* C10: a stop request in which recorder.stop() throws still stops every
\* stream held by the shared references (screen, webcam, microphone, canvas),
\* cancels the compositor callback they hold and sets the stop-failure
\* message; for a session no other start overlapped these are all the
\* streams and the compositor of the session being stopped.
C10_StopFailureStillReleases ==
  [][stopRecording(TRUE) =>
       /\ RefsReleased
       /\ statusError' = ErrStop
       /\ ~hist.overlapped[recorderRef] =>
            /\ \A k \in StreamKinds : handles'[recorderRef][k] = "stopped"
            /\ loop'[recorderRef] = "cancelled"]_vars

C10_Witness ==
  /\ statusError = ErrStop
  /\ recording
  /\ recorderRef # Null
  /\ recorder[recorderRef] = "recording"
  /\ \A k \in StreamKinds : handles[recorderRef][k] = "stopped"
  /\ loop[recorderRef] = "cancelled"

\* C11: the settings value changes only while the machine is Idle; in
\* CountingDown, Acquiring, Recording and Saving it stays as it is.
C11_SettingsOnlyWhenIdle ==
  [][settings' # settings => MachineState = "Idle"]_vars

\* C12: the exposed artifact is set only by the stop callback of a session
\* that an explicit stop request reached and whose encoder did not fail.
C12_ArtifactOnlyAfterExplicitStop ==
  [][/\ lastRecording' # lastRecording => \E p \in Sessions : onstop(p)
     /\ \A p \in Sessions : onstop(p) => hist.stopped[p] /\ ~hist.errored[p]]_vars

\* C13: once the stop callback of a stopped session has been processed, none
\* of its streams is open: screen, webcam, microphone, canvas stream and the
\* mixed-audio stream.
C13_AllStreamsReleasedAfterSaving ==
  \A p \in Sessions :
    (hist.stopped[p] /\ recorder[p] = "finalized") => Closed(p, HandleKinds)

\* C14: sessions do not touch each other: the artifact built by a session's
\* stop callback holds only fragments of that session's encoder, the
\* teardown run by a session (stop callback or failed start) changes no
\* stream and no compositor of another session, and emptying the fragment
\* buffer at the start of a recording discards no fragment of a session that
\* is not yet finalized.
C14_SessionsIndependent ==
  [][\A p \in Sessions :
       /\ (onstop(p) \/ (sess[p].pc \in PcWaiting /\ sess'[p].pc = "failed"))
            => \A q \in Sessions \ {p} : handles'[q] = handles[q] /\ loop'[q] = loop[q]
       /\ onstop(p)
            => \A i \in DOMAIN chunksRef : chunksRef[i].by = p
       /\ (sess[p].pc = "waitPlay" /\ sess'[p].pc = "done")
            => \A i \in DOMAIN chunksRef : recorder[chunksRef[i].by] = "finalized"]_vars

C16_StepsInOrder ==
  /\ \A p \in Sessions :
       /\ (\E k \in SourceKinds : handles[p][k] # "none")
            => /\ sess[p].pc \notin {"unborn", "tick"}
               /\ hist.ticks[p] = Descending(sess[p].snap.countdown, 1)
       /\ handles[p]["mic"] # "none" => handles[p]["webcam"] # "none"
       /\ handles[p]["webcam"] # "none" => handles[p]["display"] # "none"
       /\ loop[p] # "none" => \A k \in SourceKinds : handles[p][k] # "none"
       /\ handles[p]["canvas"] # "none" => loop[p] # "none"
       /\ recorder[p] # "none" => loop[p] # "none" /\ handles[p]["canvas"] # "none"
  /\ recording => \E p \in Sessions : recorder[p] # "none"

C16_Witness ==
  \E p \in Sessions :
    /\ recording
    /\ recorder[p] = "recording"
    /\ hist.ticks[p] = <<2, 1>>
    /\ loop[p] = "scheduled"
    /\ \A k \in StreamKinds : handles[p][k] = "open"

\* C17: the settings of a session are a read-only snapshot: the closure of a
\* start holds the settings in effect at the start request and never changes
\* afterwards, and every read of frame rate, webcam size and webcam position
\* by the session's acquisition calls and compositor returns the value of
\* that snapshot, whatever the settings state has become.
C17_SettingsSnapshot ==
  [][\A p \in Sessions :
       /\ startRecording(p) => sess'[p].snap = settings
       /\ Started(p) => sess'[p].snap = sess[p].snap
       /\ \A f \in DOMAIN NoneUsed : sess'[p].used[f] \subseteq {sess'[p].snap[f]}
       /\ sess'[p].pc = "getDisplay" => sess'[p].used.fps # {}
       /\ handles'[p]["display"] # "none" => sess'[p].used.webcam_size # {}
       /\ loop'[p] # "none" => \A f \in DOMAIN NoneUsed : sess'[p].used[f] # {}]_vars

C17_Witness ==
  \E p \in Sessions :
    /\ sess[p].snap.webcam_size # settings.webcam_size
    /\ loop[p] = "scheduled"
    /\ frames >= 2
    /\ sess[p].used.webcam_size = {sess[p].snap.webcam_size}
    /\ sess[p].used.fps = {sess[p].snap.fps}

\* C18: a start request resets the frame counter to 0; any other change of
\* the counter is an increase by one made by a compositor tick of a session
\* whose callback is scheduled or whose compositor starts; once every session has been torn down (its
\* start failed or its stop callback was processed) the counter stays as it
\* is until the next start request.
C18_FrameCounter ==
  [][/\ \A p \in Sessions : startRecording(p) => frames' = 0
     /\ (frames' # frames /\ ~\E p \in Sessions : startRecording(p))
          => /\ frames' = frames + 1
             /\ \E p \in Sessions : loop[p] = "scheduled" \/ sess[p].pc = "waitPlay"
     /\ ((\A p \in Sessions : ~Active(p)) /\ ~\E p \in Sessions : startRecording(p))
          => frames' = frames]_vars

\* C20: every open capture stream (screen, webcam, microphone, canvas) is the
\* one streamRef holds for its kind and every scheduled compositor callback
\* is the one drawLoopRef holds, so one cleanupStreams call releases them all.
C20_OpenHandlesAreReferenced ==
  \A p \in Sessions :
    /\ \A k \in StreamKinds : handles[p][k] = "open" => streamRef[k] = p
    /\ loop[p] = "scheduled" => drawLoopRef = p

\* C19: after a stop request in Recording has stopped the encoder of a
\* session, the machine eventually reaches a state in which an artifact is
\* exposed, the source handles of that session are released, its compositor
\* callback is not scheduled and the machine is Idle.
C19_StopEventuallyIdle ==
  \A p \in Sessions :
    (hist.stopped[p] /\ recorder[p] = "stopping")
      ~> /\ lastRecording # NoRecording
         /\ Closed(p, SourceKinds)
         /\ loop[p] # "scheduled"
         /\ MachineState = "Idle"

\* C21: with every permission prompt answered and every metadata event
\* delivered, every start request eventually ends: its call has either
\* started the encoder and raised the recording flag, or has run its catch
\* block, which sets the failure reason; this also when start requests
\* overlap.
C21_StartEventuallyEnds ==
  \A p \in Sessions : Started(p) ~> (sess[p].pc \in {"done", "failed"})

====
